---- MODULE Spec2Model ----
(***************************************************************************)
(* Model of txreader's src/src/tx.rs: the per-client Account Ledger        *)
(* (handle_txn folded by to_account / stream_to_account) and the channel   *)
(* pipeline of accounts_from_path (txns_to_streams, streams_to_accounts).  *)
(*                                                                         *)
(* Decimal amounts are integers counting units of 0.00001 (five fractional *)
(* digits), one digit more than round_dp(4) keeps, so that rounding is an  *)
(* operation the checks can observe.                                       *)
(***************************************************************************)
EXTENDS Integers, Sequences, FiniteSets, TLC

VARIABLES
    \* one client's Ledger: the fold's accumulator, the event just folded,
    \* its io::Result, the account before it, and the events folded so far
    account, handled, txn, res, before, trace,
    \* accounts_from_path: the input, the main task's position, the thread
    \* pool, the per-client channels and the per-client stream folds
    all_txns, main_pc, spawned, queue, worker, chan, senders, ended,
    rx_account, rx_handled, rx_got, panicked,
    \* accounts_from_path0: the position of txns_to_map's fold, the map it
    \* builds, and the per-client folds of txns_map_to_accounts
    map_pos, txns_map, map_account, map_handled, map_folded,
    \* the Vec<Account> either pipeline returns
    accounts,
    \* read_txns: whether the path can be opened, the data rows of the file
    \* (each a list of trimmed fields) and the rows the reader has consumed
    file_opens, file_rows, read_pos,
    \* csv.rs: the Vec<(usize, Transaction)> read_txns collects
    csv_txns

ledgerVars == <<account, handled, txn, res, before, trace>>

streamVars == <<all_txns, main_pc, spawned, queue, worker, chan, senders,
                ended, rx_account, rx_handled, rx_got, panicked>>

poolVars == <<spawned, queue, worker, chan, senders, ended,
              rx_account, rx_handled, rx_got, panicked>>

mapVars == <<map_pos, txns_map, map_account, map_handled, map_folded>>

readVars == <<file_opens, file_rows, read_pos>>

csvVars == <<csv_txns>>

pipelineVars == <<streamVars, mapVars, accounts, readVars, csvVars>>

vars == <<ledgerVars, pipelineVars>>

----------------------------------------------------------------------------
(* Bounds *)

\* most accepted events kept in one client's log (Spec)
MaxLog == 4

\* longest client_txns folded by to_account (SpecToAccount)
MaxTxns == 4

\* longest input of accounts_from_path (SpecStream)
MaxInput == 3

\* worker threads of the ThreadPool (SpecStream)
NumWorkers == 2

\* most accepted events kept in one client's log (SpecLocked)
MaxLockedLog == 6

\* most data rows of the input file (SpecRead)
MaxRows == 2

----------------------------------------------------------------------------
(* Data types: tx.rs 17-72 *)

\* Option<Decimal>
Some(x) == [some |-> TRUE, val |-> x]

None == [some |-> FALSE, val |-> 0]

\* a Decimal with `whole` units and `frac5` hundred-thousandths
Dec(whole, frac5) == whole * 100000 + frac5

Transaction(kind, client_id, tx_id, amount) ==
    [kind |-> kind, client_id |-> client_id, tx_id |-> tx_id, amount |-> amount]

\* the absent transaction (Option<&Transaction>::None)
NoTxn == Transaction("NoTxn", 0, 0, None)

Account_new(client_id) ==
    [client_id |-> client_id, available |-> 0, held |-> 0, total |-> 0,
     locked |-> FALSE]

----------------------------------------------------------------------------
(* rust_decimal operations used by handle_txn *)

\* Decimal::round_dp(4): banker's rounding (midpoint to even) to a multiple
\* of 0.0001, i.e. of 10 units
round_dp(x) ==
    LET a  == IF x < 0 THEN 0 - x ELSE x
        q  == a \div 10
        r  == a % 10
        up == IF r > 5 \/ (r = 5 /\ q % 2 = 1) THEN 1 ELSE 0
        m  == (q + up) * 10
    IN  IF x < 0 THEN 0 - m ELSE m

\* Decimal::is_sign_positive: the sign bit is clear, which holds for zero
is_sign_positive(x) == x >= 0

----------------------------------------------------------------------------
(* Log lookups: tx.rs 441-455 *)

Count(txns, kind) == Len(SelectSeq(txns, LAMBDA t : t.kind = kind))

\* is_under_dispute counting one dispute too few
is_under_dispute_off_by_one(txns) ==
    LET n_dispute  == Count(txns, "Dispute")
        n_resolve  == Count(txns, "Resolve")
        chargeback == \E i \in 1..Len(txns) : txns[i].kind = "Chargeback"
        dispute    == n_dispute > n_resolve + 1
    IN  dispute /\ ~chargeback

\* is_under_dispute without the chargeback test
is_under_dispute_no_chargeback(txns) ==
    LET n_dispute == Count(txns, "Dispute")
        n_resolve == Count(txns, "Resolve")
    IN  n_dispute > n_resolve

\* is_under_dispute as "was ever disputed"
is_under_dispute_ever(txns) ==
    LET n_dispute  == Count(txns, "Dispute")
        chargeback == \E i \in 1..Len(txns) : txns[i].kind = "Chargeback"
    IN  n_dispute > 0 /\ ~chargeback

is_under_dispute(txns) ==
    LET n_dispute  == Count(txns, "Dispute")
        n_resolve  == Count(txns, "Resolve")
        chargeback == \E i \in 1..Len(txns) : txns[i].kind = "Chargeback"
        dispute    == n_dispute > n_resolve
    IN  dispute /\ ~chargeback

\* initial_txn taking the last Withdrawal or Deposit (.last() for .next())
initial_txn_last(txns) ==
    LET f == SelectSeq(txns, LAMBDA t : t.kind = "Withdrawal" \/ t.kind = "Deposit")
    IN  IF f = <<>> THEN NoTxn ELSE f[Len(f)]

initial_txn(txns) ==
    LET f == SelectSeq(txns, LAMBDA t : t.kind = "Withdrawal" \/ t.kind = "Deposit")
    IN  IF f = <<>> THEN NoTxn ELSE Head(f)

----------------------------------------------------------------------------
(* handle_txn: tx.rs 307-439.  Each arm returns the io::Result and the     *)
(* account as the arm leaves it.                                           *)

Ok(acc) == [ok |-> TRUE, account |-> acc]

Err(acc) == [ok |-> FALSE, account |-> acc]

\* the Deposit arm without the check of account.locked
handle_deposit_no_lock(acc, t) ==
    LET amount == t.amount.val
    IN  IF is_sign_positive(amount)
        THEN Ok([acc EXCEPT !.available = @ + round_dp(amount),
                            !.total     = @ + round_dp(amount)])
        ELSE Err(acc)

\* the Deposit arm adding the amount as it was read
handle_deposit_unrounded(acc, t) ==
    LET amount == t.amount.val
    IN  IF ~acc.locked /\ is_sign_positive(amount)
        THEN Ok([acc EXCEPT !.available = @ + amount,
                            !.total     = @ + amount])
        ELSE Err(acc)

handle_deposit(acc, t) ==
    LET amount == t.amount.val
    IN  IF ~acc.locked /\ is_sign_positive(amount)
        THEN Ok([acc EXCEPT !.available = @ + round_dp(amount),
                            !.total     = @ + round_dp(amount)])
        ELSE Err(acc)

\* the Withdrawal arm comparing the amount with total
handle_withdrawal_total(acc, t) ==
    LET amount == t.amount.val
    IN  IF ~acc.locked /\ acc.total >= amount /\ is_sign_positive(amount)
        THEN Ok([acc EXCEPT !.available = @ - round_dp(amount),
                            !.total     = @ - round_dp(amount)])
        ELSE Err(acc)

\* the Withdrawal arm debiting available before it checks the funds
handle_withdrawal_partial(acc, t) ==
    LET amount == t.amount.val
        debited == [acc EXCEPT !.available = @ - round_dp(amount)]
    IN  IF ~acc.locked /\ debited.available >= 0 /\ is_sign_positive(amount)
        THEN Ok([debited EXCEPT !.total = @ - round_dp(amount)])
        ELSE Err(debited)

handle_withdrawal(acc, t) ==
    LET amount == t.amount.val
    IN  IF ~acc.locked /\ acc.available >= amount /\ is_sign_positive(amount)
        THEN Ok([acc EXCEPT !.available = @ - round_dp(amount),
                            !.total     = @ - round_dp(amount)])
        ELSE Err(acc)

\* the Dispute arm treating a disputed withdrawal as a pure held adjustment
handle_dispute_no_total(acc, log, t) ==
    IF t.tx_id \notin DOMAIN log THEN Err(acc)
    ELSE LET txns    == log[t.tx_id]
             dispute == is_under_dispute(txns)
             initial == initial_txn(txns)
             amount  == initial.amount.val
         IN  IF ~dispute /\ initial.kind = "Deposit" /\ initial.amount.some
             THEN Ok([acc EXCEPT !.available = @ - round_dp(amount),
                                 !.held      = @ + round_dp(amount)])
             ELSE IF ~dispute /\ initial.kind = "Withdrawal" /\ initial.amount.some
             THEN Ok([acc EXCEPT !.held  = @ + round_dp(amount)])
             ELSE Err(acc)

\* the Dispute arm writing back an account whose locked is false
handle_dispute_unlocks(acc, log, t) ==
    IF t.tx_id \notin DOMAIN log THEN Err(acc)
    ELSE LET txns    == log[t.tx_id]
             dispute == is_under_dispute(txns)
             initial == initial_txn(txns)
             amount  == initial.amount.val
         IN  IF ~dispute /\ initial.kind = "Deposit" /\ initial.amount.some
             THEN Ok([acc EXCEPT !.available = @ - round_dp(amount),
                                 !.held      = @ + round_dp(amount),
                                 !.locked    = FALSE])
             ELSE IF ~dispute /\ initial.kind = "Withdrawal" /\ initial.amount.some
             THEN Ok([acc EXCEPT !.held   = @ + round_dp(amount),
                                 !.total  = @ + round_dp(amount),
                                 !.locked = FALSE])
             ELSE Err(acc)

\* the Dispute arm returning Ok(()) for a tx_id the log does not hold
handle_dispute_ignores_unknown(acc, log, t) ==
    IF t.tx_id \notin DOMAIN log THEN Ok(acc)
    ELSE LET txns    == log[t.tx_id]
             dispute == is_under_dispute(txns)
             initial == initial_txn(txns)
             amount  == initial.amount.val
         IN  IF ~dispute /\ initial.kind = "Deposit" /\ initial.amount.some
             THEN Ok([acc EXCEPT !.available = @ - round_dp(amount),
                                 !.held      = @ + round_dp(amount)])
             ELSE IF ~dispute /\ initial.kind = "Withdrawal" /\ initial.amount.some
             THEN Ok([acc EXCEPT !.held  = @ + round_dp(amount),
                                 !.total = @ + round_dp(amount)])
             ELSE Err(acc)

\* the Dispute arm holding a deposit only when available covers it
handle_dispute_checks_available(acc, log, t) ==
    IF t.tx_id \notin DOMAIN log THEN Err(acc)
    ELSE LET txns    == log[t.tx_id]
             dispute == is_under_dispute(txns)
             initial == initial_txn(txns)
             amount  == initial.amount.val
         IN  IF ~dispute /\ initial.kind = "Deposit" /\ initial.amount.some
                /\ acc.available >= amount
             THEN Ok([acc EXCEPT !.available = @ - round_dp(amount),
                                 !.held      = @ + round_dp(amount)])
             ELSE IF ~dispute /\ initial.kind = "Withdrawal" /\ initial.amount.some
             THEN Ok([acc EXCEPT !.held  = @ + round_dp(amount),
                                 !.total = @ + round_dp(amount)])
             ELSE Err(acc)

\* the Dispute arm freezing the account
handle_dispute_locks(acc, log, t) ==
    IF t.tx_id \notin DOMAIN log THEN Err(acc)
    ELSE LET txns    == log[t.tx_id]
             dispute == is_under_dispute(txns)
             initial == initial_txn(txns)
             amount  == initial.amount.val
         IN  IF ~dispute /\ initial.kind = "Deposit" /\ initial.amount.some
             THEN Ok([acc EXCEPT !.available = @ - round_dp(amount),
                                 !.held      = @ + round_dp(amount),
                                 !.locked    = TRUE])
             ELSE IF ~dispute /\ initial.kind = "Withdrawal" /\ initial.amount.some
             THEN Ok([acc EXCEPT !.held   = @ + round_dp(amount),
                                 !.total  = @ + round_dp(amount),
                                 !.locked = TRUE])
             ELSE Err(acc)

handle_dispute(acc, log, t) ==
    IF t.tx_id \notin DOMAIN log THEN Err(acc)
    ELSE LET txns    == log[t.tx_id]
             dispute == is_under_dispute(txns)
             initial == initial_txn(txns)
             amount  == initial.amount.val
         IN  IF ~dispute /\ initial.kind = "Deposit" /\ initial.amount.some
             THEN Ok([acc EXCEPT !.available = @ - round_dp(amount),
                                 !.held      = @ + round_dp(amount)])
             ELSE IF ~dispute /\ initial.kind = "Withdrawal" /\ initial.amount.some
             THEN Ok([acc EXCEPT !.held  = @ + round_dp(amount),
                                 !.total = @ + round_dp(amount)])
             ELSE Err(acc)

\* the Resolve arm releasing a disputed withdrawal the way it releases a
\* disputed deposit
handle_resolve_as_deposit(acc, log, t) ==
    IF t.tx_id \notin DOMAIN log THEN Err(acc)
    ELSE LET txns    == log[t.tx_id]
             dispute == is_under_dispute(txns)
             initial == initial_txn(txns)
             amount  == initial.amount.val
         IN  IF dispute /\ initial.kind \in {"Deposit", "Withdrawal"}
                        /\ initial.amount.some
             THEN Ok([acc EXCEPT !.available = @ + round_dp(amount),
                                 !.held      = @ - round_dp(amount)])
             ELSE Err(acc)

\* the Resolve arm without round_dp
handle_resolve_unrounded(acc, log, t) ==
    IF t.tx_id \notin DOMAIN log THEN Err(acc)
    ELSE LET txns    == log[t.tx_id]
             dispute == is_under_dispute(txns)
             initial == initial_txn(txns)
             amount  == initial.amount.val
         IN  IF dispute /\ initial.kind = "Deposit" /\ initial.amount.some
             THEN Ok([acc EXCEPT !.available = @ + amount,
                                 !.held      = @ - amount])
             ELSE IF dispute /\ initial.kind = "Withdrawal" /\ initial.amount.some
             THEN Ok([acc EXCEPT !.held  = @ - amount,
                                 !.total = @ - amount])
             ELSE Err(acc)

\* the Resolve arm refusing to work on a locked account
handle_resolve_needs_unlocked(acc, log, t) ==
    IF t.tx_id \notin DOMAIN log THEN Err(acc)
    ELSE LET txns    == log[t.tx_id]
             dispute == is_under_dispute(txns)
             initial == initial_txn(txns)
             amount  == initial.amount.val
         IN  IF ~acc.locked /\ dispute /\ initial.kind = "Deposit" /\ initial.amount.some
             THEN Ok([acc EXCEPT !.available = @ + round_dp(amount),
                                 !.held      = @ - round_dp(amount)])
             ELSE IF ~acc.locked /\ dispute /\ initial.kind = "Withdrawal"
                     /\ initial.amount.some
             THEN Ok([acc EXCEPT !.held  = @ - round_dp(amount),
                                 !.total = @ - round_dp(amount)])
             ELSE Err(acc)

\* the Resolve arm not looking at is_under_dispute
handle_resolve_any(acc, log, t) ==
    IF t.tx_id \notin DOMAIN log THEN Err(acc)
    ELSE LET txns    == log[t.tx_id]
             dispute == is_under_dispute(txns)
             initial == initial_txn(txns)
             amount  == initial.amount.val
         IN  IF initial.kind = "Deposit" /\ initial.amount.some
             THEN Ok([acc EXCEPT !.available = @ + round_dp(amount),
                                 !.held      = @ - round_dp(amount)])
             ELSE IF initial.kind = "Withdrawal" /\ initial.amount.some
             THEN Ok([acc EXCEPT !.held  = @ - round_dp(amount),
                                 !.total = @ - round_dp(amount)])
             ELSE Err(acc)

handle_resolve(acc, log, t) ==
    IF t.tx_id \notin DOMAIN log THEN Err(acc)
    ELSE LET txns    == log[t.tx_id]
             dispute == is_under_dispute(txns)
             initial == initial_txn(txns)
             amount  == initial.amount.val
         IN  IF dispute /\ initial.kind = "Deposit" /\ initial.amount.some
             THEN Ok([acc EXCEPT !.available = @ + round_dp(amount),
                                 !.held      = @ - round_dp(amount)])
             ELSE IF dispute /\ initial.kind = "Withdrawal" /\ initial.amount.some
             THEN Ok([acc EXCEPT !.held  = @ - round_dp(amount),
                                 !.total = @ - round_dp(amount)])
             ELSE Err(acc)

\* the Chargeback arm without account.locked = true for a deposit
handle_chargeback_no_lock(acc, log, t) ==
    IF t.tx_id \notin DOMAIN log THEN Err(acc)
    ELSE LET txns    == log[t.tx_id]
             dispute == is_under_dispute(txns)
             initial == initial_txn(txns)
             amount  == initial.amount.val
         IN  IF dispute /\ initial.kind = "Deposit" /\ initial.amount.some
             THEN Ok([acc EXCEPT !.held   = @ - round_dp(amount),
                                 !.total  = @ - round_dp(amount)])
             ELSE IF dispute /\ initial.kind = "Withdrawal" /\ initial.amount.some
             THEN Ok([acc EXCEPT !.available = @ + round_dp(amount),
                                 !.held      = @ - round_dp(amount),
                                 !.locked    = TRUE])
             ELSE Err(acc)

\* the Chargeback arm adding the reversed withdrawal to total as well
handle_chargeback_adds_total(acc, log, t) ==
    IF t.tx_id \notin DOMAIN log THEN Err(acc)
    ELSE LET txns    == log[t.tx_id]
             dispute == is_under_dispute(txns)
             initial == initial_txn(txns)
             amount  == initial.amount.val
         IN  IF dispute /\ initial.kind = "Deposit" /\ initial.amount.some
             THEN Ok([acc EXCEPT !.held   = @ - round_dp(amount),
                                 !.total  = @ - round_dp(amount),
                                 !.locked = TRUE])
             ELSE IF dispute /\ initial.kind = "Withdrawal" /\ initial.amount.some
             THEN Ok([acc EXCEPT !.available = @ + round_dp(amount),
                                 !.held      = @ - round_dp(amount),
                                 !.total     = @ + round_dp(amount),
                                 !.locked    = TRUE])
             ELSE Err(acc)

\* the Chargeback arm testing n_dispute > n_resolve only
handle_chargeback_again(acc, log, t) ==
    IF t.tx_id \notin DOMAIN log THEN Err(acc)
    ELSE LET txns    == log[t.tx_id]
             dispute == Count(txns, "Dispute") > Count(txns, "Resolve")
             initial == initial_txn(txns)
             amount  == initial.amount.val
         IN  IF dispute /\ initial.kind = "Deposit" /\ initial.amount.some
             THEN Ok([acc EXCEPT !.held   = @ - round_dp(amount),
                                 !.total  = @ - round_dp(amount),
                                 !.locked = TRUE])
             ELSE IF dispute /\ initial.kind = "Withdrawal" /\ initial.amount.some
             THEN Ok([acc EXCEPT !.available = @ + round_dp(amount),
                                 !.held      = @ - round_dp(amount),
                                 !.locked    = TRUE])
             ELSE Err(acc)

handle_chargeback(acc, log, t) ==
    IF t.tx_id \notin DOMAIN log THEN Err(acc)
    ELSE LET txns    == log[t.tx_id]
             dispute == is_under_dispute(txns)
             initial == initial_txn(txns)
             amount  == initial.amount.val
         IN  IF dispute /\ initial.kind = "Deposit" /\ initial.amount.some
             THEN Ok([acc EXCEPT !.held   = @ - round_dp(amount),
                                 !.total  = @ - round_dp(amount),
                                 !.locked = TRUE])
             ELSE IF dispute /\ initial.kind = "Withdrawal" /\ initial.amount.some
             THEN Ok([acc EXCEPT !.available = @ + round_dp(amount),
                                 !.held      = @ - round_dp(amount),
                                 !.locked    = TRUE])
             ELSE Err(acc)

handle_txn(acc, log, t) ==
    IF t.kind = "Deposit" /\ t.amount.some THEN handle_deposit(acc, t)
    ELSE IF t.kind = "Withdrawal" /\ t.amount.some THEN handle_withdrawal(acc, t)
    ELSE IF t.kind = "Dispute" THEN handle_dispute(acc, log, t)
    ELSE IF t.kind = "Resolve" THEN handle_resolve(acc, log, t)
    ELSE IF t.kind = "Chargeback" THEN handle_chargeback(acc, log, t)
    ELSE Err(acc)

\* handled.entry(txn.client_id).or_insert(vec![]).push(txn)
log_push_by_client(log, t) ==
    [id \in DOMAIN log \cup {t.client_id} |->
        IF id = t.client_id
        THEN Append(IF id \in DOMAIN log THEN log[id] ELSE <<>>, t)
        ELSE log[id]]

\* handled.entry(txn_id).or_insert(vec![]).push(txn): tx.rs 277, 295
log_push(log, t) ==
    [id \in DOMAIN log \cup {t.tx_id} |->
        IF id = t.tx_id
        THEN Append(IF id \in DOMAIN log THEN log[id] ELSE <<>>, t)
        ELSE log[id]]

\* number of events in the log
RECURSIVE LogSize(_)
LogSize(log) ==
    IF DOMAIN log = {} THEN 0
    ELSE LET id == CHOOSE i \in DOMAIN log : TRUE
         IN  Len(log[id]) + LogSize([j \in DOMAIN log \ {id} |-> log[j]])

----------------------------------------------------------------------------
(* The Ledger of one client under an arbitrary event stream                *)

TheClient == 1

TxIds == {1, 2}

\* amounts of the incoming events: negative (-0.00001), zero, and a positive
\* amount that round_dp(4) changes (0.00015 becomes 0.0002)
Amounts == {Dec(0, 0) - 1, Dec(0, 0), Dec(0, 15)}

Events ==
    { Transaction(k, TheClient, id, a) :
        k \in {"Deposit", "Withdrawal"}, id \in TxIds,
        a \in {Some(x) : x \in Amounts} \cup {None} }
    \cup
    { Transaction(k, TheClient, id, None) :
        k \in {"Dispute", "Resolve", "Chargeback"}, id \in TxIds }

\* the closure folded by to_account (tx.rs 272-281) and by
\* stream_to_account (tx.rs 290-299), applied to one event
fold_step(t) ==
    LET r == handle_txn(account, handled, t)
    IN  /\ account' = r.account
        /\ handled' = IF r.ok THEN log_push(handled, t) ELSE handled
        /\ txn'     = t
        /\ res'     = IF r.ok THEN "Ok" ELSE "Err"
        /\ before'  = account

\* the pipeline at rest, for the specifications that only fold one Ledger
PoolIdle ==
    /\ spawned    = 0
    /\ queue      = <<>>
    /\ worker     = <<>>
    /\ chan       = <<>>
    /\ senders    = <<>>
    /\ ended      = <<>>
    /\ rx_account = <<>>
    /\ rx_handled = <<>>
    /\ rx_got     = <<>>
    /\ panicked   = FALSE

\* no txns_to_map and no txns_map_to_accounts in progress
MapIdle ==
    /\ map_pos     = 0
    /\ txns_map    = <<>>
    /\ map_account = <<>>
    /\ map_handled = <<>>
    /\ map_folded  = <<>>

\* csv.rs is not running
CsvIdle == csv_txns = <<>>

\* read_txns is over: the Vec<Transaction> is in all_txns
ReadIdle ==
    /\ file_opens = TRUE
    /\ file_rows  = <<>>
    /\ read_pos   = 0

StreamIdle ==
    /\ all_txns = <<>>
    /\ main_pc  = "idle"
    /\ accounts = <<>>
    /\ PoolIdle
    /\ MapIdle
    /\ CsvIdle
    /\ ReadIdle

\* (Account::new(client_id), HashMap::new()): tx.rs 271, 289
LedgerInit ==
    /\ account = Account_new(TheClient)
    /\ handled = <<>>
    /\ txn     = NoTxn
    /\ res     = "None"
    /\ before  = Account_new(TheClient)
    /\ trace   = <<>>

Init == LedgerInit /\ StreamIdle

\* stream_to_account folds the next event its channel delivers
Apply(t) ==
    /\ handle_txn(account, handled, t).ok => LogSize(handled) < MaxLog
    /\ fold_step(t)
    /\ UNCHANGED <<trace, pipelineVars>>

Next == \E t \in Events : Apply(t)

Spec == Init /\ [][Next]_vars

----------------------------------------------------------------------------
(* to_account (tx.rs 268-284) over the events of the documented scenarios  *)

Deposit(id, a) == Transaction("Deposit", TheClient, id, Some(a))

Withdrawal(id, a) == Transaction("Withdrawal", TheClient, id, Some(a))

Dispute(id) == Transaction("Dispute", TheClient, id, None)

Resolve(id) == Transaction("Resolve", TheClient, id, None)

Chargeback(id) == Transaction("Chargeback", TheClient, id, None)

\* the rows of the scenarios of tx.rs 1001-1199 and 934-965, one withdrawal
\* whose amount round_dp(4) rounds up to 50, and a dispute of a tx_id that
\* no other row carries
ScnEvents ==
    { Deposit(1, Dec(100, 0)), Deposit(1, Dec(50, 0)), Deposit(2, Dec(50, 0)),
      Withdrawal(2, Dec(50, 0)), Withdrawal(2, Dec(200, 0)),
      Withdrawal(2, Dec(49, 99995)),
      Dispute(1), Dispute(2), Dispute(99), Resolve(2),
      Chargeback(1), Chargeback(2) }

\* one iteration of the fold over client_txns
ToAccountStep(t) ==
    /\ Len(trace) < MaxTxns
    /\ fold_step(t)
    /\ trace' = Append(trace, t)
    /\ UNCHANGED pipelineVars

ToAccountNext == \E t \in ScnEvents : ToAccountStep(t)

SpecToAccount == Init /\ [][ToAccountNext]_vars

----------------------------------------------------------------------------
(* The Ledger on amounts with five fractional digits: every one of them is *)
(* changed by round_dp(4), two of them are midpoints.                      *)

RoundAmounts == {Dec(2, 2), Dec(0, 15), Dec(0, 25), Dec(0, 5)}

RoundEvents ==
    { Transaction(k, TheClient, 1, Some(a)) :
        k \in {"Deposit", "Withdrawal"}, a \in RoundAmounts }
    \cup
    { Transaction(k, TheClient, 1, None) :
        k \in {"Dispute", "Resolve", "Chargeback"} }

RoundNext == \E t \in RoundEvents : Apply(t)

SpecRound == Init /\ [][RoundNext]_vars

----------------------------------------------------------------------------
(* The Ledger on two deposits and their disputes, with a log long enough   *)
(* for one transaction to be charged back while the other is in dispute.   *)

LockedEvents ==
    { Deposit(1, Dec(100, 0)), Deposit(2, Dec(50, 0)),
      Dispute(1), Dispute(2), Resolve(1), Resolve(2),
      Chargeback(1), Chargeback(2) }

ApplyLocked(t) ==
    /\ handle_txn(account, handled, t).ok => LogSize(handled) < MaxLockedLog
    /\ fold_step(t)
    /\ UNCHANGED <<trace, pipelineVars>>

LockedNext == \E t \in LockedEvents : ApplyLocked(t)

SpecLocked == Init /\ [][LockedNext]_vars

----------------------------------------------------------------------------
(* accounts_from_path (tx.rs 116-131): txns_to_streams spawns one send     *)
(* task per transaction on the ThreadPool, streams_to_accounts folds every *)
(* client's channel with stream_to_account.                                *)

StreamClients == {1, 2}

StreamEvents ==
    { Transaction("Deposit", c, 1, Some(Dec(100, 0))) : c \in StreamClients }
    \cup
    { Transaction("Dispute", c, 1, None) : c \in StreamClients }

Inputs == UNION { [1..n -> StreamEvents] : n \in 0..MaxInput }

\* the indices of the input rows of client c, in input order
ClientIdx(txns, c) ==
    SelectSeq([i \in 1..Len(txns) |-> i], LAMBDA i : txns[i].client_id = c)

\* the state txns_to_streams has built when its fold returns (tx.rs 227-242):
\* one channel per client id of the input, and per transaction a future that
\* owns a clone of its client's sender
StreamInit ==
    /\ all_txns \in Inputs
    /\ LET clients == { all_txns[i].client_id : i \in 1..Len(all_txns) }
       IN  /\ chan       = [c \in clients |-> <<>>]
           /\ senders    = [c \in clients |-> 1 + Len(ClientIdx(all_txns, c))]
           /\ ended      = [c \in clients |-> FALSE]
           /\ rx_account = [c \in clients |-> Account_new(c)]
           /\ rx_handled = [c \in clients |-> <<>>]
           /\ rx_got     = [c \in clients |-> <<>>]
    /\ main_pc  = "spawn"
    /\ spawned  = 0
    /\ queue    = <<>>
    /\ worker   = [w \in 1..NumWorkers |-> 0]
    /\ panicked = FALSE
    /\ accounts = <<>>
    /\ MapIdle
    /\ CsvIdle
    /\ ReadIdle

\* vec.into_iter().for_each(|fut| pool.spawn_ok(fut)): tx.rs 243
spawn_ok ==
    /\ main_pc = "spawn"
    /\ spawned < Len(all_txns)
    /\ spawned' = spawned + 1
    /\ queue' = Append(queue, spawned + 1)
    /\ UNCHANGED <<all_txns, main_pc, worker, chan, senders, ended,
                   rx_account, rx_handled, rx_got, panicked>>

\* an idle worker thread takes the oldest task of the pool's queue
pool_take(w) ==
    /\ worker[w] = 0
    /\ queue # <<>>
    /\ worker' = [worker EXCEPT ![w] = Head(queue)]
    /\ queue' = Tail(queue)
    /\ UNCHANGED <<all_txns, main_pc, spawned, chan, senders, ended,
                   rx_account, rx_handled, rx_got, panicked>>

\* the worker runs its task: tx.unbounded_send(txn).expect("Failed to send")
\* and the drop of the task's sender clone (tx.rs 237-239)
send_task(w) ==
    /\ worker[w] # 0
    /\ LET i == worker[w]
           c == all_txns[i].client_id
       IN  /\ IF ended[c]
              THEN panicked' = TRUE /\ chan' = chan
              ELSE panicked' = panicked /\ chan' = [chan EXCEPT ![c] = Append(@, i)]
           /\ senders' = [senders EXCEPT ![c] = @ - 1]
    /\ worker' = [worker EXCEPT ![w] = 0]
    /\ UNCHANGED <<all_txns, main_pc, spawned, queue, ended,
                   rx_account, rx_handled, rx_got>>

\* streams_to_accounts without drop(tx): the map's senders stay alive
streams_to_accounts_keeps_sender ==
    /\ main_pc = "spawn"
    /\ spawned = Len(all_txns)
    /\ senders' = senders
    /\ main_pc' = "join"
    /\ UNCHANGED <<all_txns, spawned, queue, worker, chan, ended,
                   rx_account, rx_handled, rx_got, panicked>>

\* streams_to_accounts (tx.rs 249-256) drops the map's sender of every
\* client and joins the stream_to_account futures
streams_to_accounts ==
    /\ main_pc = "spawn"
    /\ spawned = Len(all_txns)
    /\ senders' = [c \in DOMAIN senders |-> senders[c] - 1]
    /\ main_pc' = "join"
    /\ UNCHANGED <<all_txns, spawned, queue, worker, chan, ended,
                   rx_account, rx_handled, rx_got, panicked>>

\* stream_to_account (tx.rs 286-302) folds the next transaction of its channel
stream_to_account(c) ==
    /\ main_pc = "join"
    /\ ~ended[c]
    /\ chan[c] # <<>>
    /\ LET i == Head(chan[c])
           t == all_txns[i]
           r == handle_txn(rx_account[c], rx_handled[c], t)
       IN  /\ rx_account' = [rx_account EXCEPT ![c] = r.account]
           /\ rx_handled' = [rx_handled EXCEPT ![c] =
                                IF r.ok THEN log_push(@, t) ELSE @]
           /\ rx_got' = [rx_got EXCEPT ![c] = Append(@, i)]
    /\ chan' = [chan EXCEPT ![c] = Tail(@)]
    /\ UNCHANGED <<all_txns, main_pc, spawned, queue, worker, senders, ended,
                   panicked>>

\* the fold returning as soon as the channel is empty
stream_end_on_empty(c) ==
    /\ main_pc = "join"
    /\ ~ended[c]
    /\ chan[c] = <<>>
    /\ ended' = [ended EXCEPT ![c] = TRUE]
    /\ UNCHANGED <<all_txns, main_pc, spawned, queue, worker, chan, senders,
                   rx_account, rx_handled, rx_got, panicked>>

\* the stream ends: the channel is empty and every sender is dropped; the
\* fold returns its Account and the receiver is dropped
stream_end(c) ==
    /\ main_pc = "join"
    /\ ~ended[c]
    /\ chan[c] = <<>>
    /\ senders[c] = 0
    /\ ended' = [ended EXCEPT ![c] = TRUE]
    /\ UNCHANGED <<all_txns, main_pc, spawned, queue, worker, chan, senders,
                   rx_account, rx_handled, rx_got, panicked>>

\* the orders in which a HashMap may iterate over the keys S
Orders(S) ==
    { o \in [1..Cardinality(S) -> S] : \A i, j \in DOMAIN o : o[i] = o[j] => i = j }

\* future::join_all(futures).await returns the accounts (tx.rs 255), one per
\* future, in the order streams.into_iter() made the futures
join_all ==
    /\ main_pc = "join"
    /\ \A c \in DOMAIN ended : ended[c]
    /\ main_pc' = "done"
    /\ accounts' \in { [i \in DOMAIN o |-> rx_account[o[i]]] : o \in Orders(DOMAIN ended) }
    /\ UNCHANGED <<all_txns, spawned, queue, worker, chan, senders, ended,
                   rx_account, rx_handled, rx_got, panicked>>

StreamNext ==
    \/ spawn_ok /\ UNCHANGED <<ledgerVars, mapVars, accounts, readVars, csvVars>>
    \/ \E w \in DOMAIN worker : pool_take(w) /\ UNCHANGED <<ledgerVars, mapVars, accounts, readVars, csvVars>>
    \/ \E w \in DOMAIN worker : send_task(w) /\ UNCHANGED <<ledgerVars, mapVars, accounts, readVars, csvVars>>
    \/ streams_to_accounts /\ UNCHANGED <<ledgerVars, mapVars, accounts, readVars, csvVars>>
    \/ \E c \in DOMAIN chan : stream_to_account(c) /\ UNCHANGED <<ledgerVars, mapVars, accounts, readVars, csvVars>>
    \/ \E c \in DOMAIN chan : stream_end(c) /\ UNCHANGED <<ledgerVars, mapVars, accounts, readVars, csvVars>>
    \/ join_all /\ UNCHANGED <<ledgerVars, mapVars, readVars, csvVars>>

InitStream == LedgerInit /\ StreamInit

SpecStream == InitStream /\ [][StreamNext]_vars

\* the pool's threads and the block_on of main keep running: some task that
\* can take a step eventually takes one
SpecStreamFair == InitStream /\ [][StreamNext]_vars /\ WF_vars(StreamNext)

----------------------------------------------------------------------------
(* accounts_from_path0 (tx.rs 97-112): txns_to_map groups the transactions *)
(* by client id, txns_map_to_accounts folds every client's Vec with        *)
(* to_account on rayon's threads.                                          *)

\* acc.entry(txn.client_id).or_insert(vec![]).push(txn) keyed by the tx_id
map_push_by_tx_id(map, t) ==
    [k \in DOMAIN map \cup {t.tx_id} |->
        IF k = t.tx_id
        THEN Append(IF k \in DOMAIN map THEN map[k] ELSE <<>>, t)
        ELSE map[k]]

\* acc.entry(txn.client_id).or_insert(vec![]).insert(0, txn)
map_push_front(map, t) ==
    [k \in DOMAIN map \cup {t.client_id} |->
        IF k = t.client_id
        THEN <<t>> \o (IF k \in DOMAIN map THEN map[k] ELSE <<>>)
        ELSE map[k]]

\* the push done only for the transactions that carry an amount
map_push_with_amount(map, t) ==
    IF ~t.amount.some THEN map
    ELSE [k \in DOMAIN map \cup {t.client_id} |->
             IF k = t.client_id
             THEN Append(IF k \in DOMAIN map THEN map[k] ELSE <<>>, t)
             ELSE map[k]]

\* acc.entry(txn.client_id).or_insert(vec![]).push(txn): tx.rs 214-215
map_push(map, t) ==
    [k \in DOMAIN map \cup {t.client_id} |->
        IF k = t.client_id
        THEN Append(IF k \in DOMAIN map THEN map[k] ELSE <<>>, t)
        ELSE map[k]]

\* accounts_from_path0 has read the input and calls txns_to_map (tx.rs 104-105)
MapInit ==
    /\ all_txns \in Inputs
    /\ main_pc  = "map"
    /\ accounts = <<>>
    /\ PoolIdle
    /\ MapIdle
    /\ CsvIdle
    /\ ReadIdle

\* one iteration of txns_to_map's fold (tx.rs 212-217)
txns_to_map ==
    /\ main_pc = "map"
    /\ map_pos < Len(all_txns)
    /\ txns_map' = map_push(txns_map, all_txns[map_pos + 1])
    /\ map_pos' = map_pos + 1
    /\ UNCHANGED <<all_txns, main_pc, poolVars, map_account, map_handled,
                   map_folded, accounts>>

\* txns_map_to_accounts (tx.rs 260-264): into_par_iter().map(to_account), each
\* to_account starting from (Account::new(client_id), HashMap::new())
txns_map_to_accounts ==
    /\ main_pc = "map"
    /\ map_pos = Len(all_txns)
    /\ main_pc' = "fold"
    /\ map_account' = [c \in DOMAIN txns_map |-> Account_new(c)]
    /\ map_handled' = [c \in DOMAIN txns_map |-> <<>>]
    /\ map_folded'  = [c \in DOMAIN txns_map |-> 0]
    /\ UNCHANGED <<all_txns, poolVars, map_pos, txns_map, accounts>>

\* one iteration of the fold of to_account for client c (tx.rs 272-281)
to_account(c) ==
    /\ main_pc = "fold"
    /\ map_folded[c] < Len(txns_map[c])
    /\ LET t == txns_map[c][map_folded[c] + 1]
           r == handle_txn(map_account[c], map_handled[c], t)
       IN  /\ map_account' = [map_account EXCEPT ![c] = r.account]
           /\ map_handled' = [map_handled EXCEPT ![c] =
                                 IF r.ok THEN log_push(@, t) ELSE @]
    /\ map_folded' = [map_folded EXCEPT ![c] = @ + 1]
    /\ UNCHANGED <<all_txns, main_pc, poolVars, map_pos, txns_map, accounts>>

\* .collect() gathers the Account of every to_account, in the order the map
\* iterates (tx.rs 263)
collect ==
    /\ main_pc = "fold"
    /\ \A c \in DOMAIN txns_map : map_folded[c] = Len(txns_map[c])
    /\ main_pc' = "done"
    /\ accounts' \in { [i \in DOMAIN o |-> map_account[o[i]]] : o \in Orders(DOMAIN txns_map) }
    /\ UNCHANGED <<all_txns, poolVars, mapVars>>

MapNext ==
    \/ txns_to_map /\ UNCHANGED <<ledgerVars, readVars, csvVars>>
    \/ txns_map_to_accounts /\ UNCHANGED <<ledgerVars, readVars, csvVars>>
    \/ \E c \in DOMAIN map_folded : to_account(c) /\ UNCHANGED <<ledgerVars, readVars, csvVars>>
    \/ collect /\ UNCHANGED <<ledgerVars, readVars, csvVars>>

InitMap == LedgerInit /\ MapInit

SpecMap == InitMap /\ [][MapNext]_vars

\* either pipeline on the same inputs: accounts_from_path0 or accounts_from_path
InitPipelines == InitMap \/ InitStream

PipelinesNext == MapNext \/ StreamNext

SpecPipelines == InitPipelines /\ [][PipelinesNext]_vars

----------------------------------------------------------------------------
(* accounts_from_path from its first line (tx.rs 116-131): ThreadPool::new, *)
(* read_txns (tx.rs 187-204) over the rows of a file, the progress lines   *)
(* written to stdout, txns_to_streams and streams_to_accounts.             *)

\* serde's lowercase names of TransactionKind (tx.rs 43-51)
KindNames ==
    [ s \in {"deposit", "withdrawal", "dispute", "resolve", "chargeback"} |->
        CASE s = "deposit"    -> "Deposit"
          [] s = "withdrawal" -> "Withdrawal"
          [] s = "dispute"    -> "Dispute"
          [] s = "resolve"    -> "Resolve"
          [] s = "chargeback" -> "Chargeback" ]

\* the decimal numerals of the rows below and their values
Numerals == [ s \in {"1", "2", "5", "70000"} |->
                CASE s = "1" -> 1 [] s = "2" -> 2 [] s = "5" -> 5
                  [] s = "70000" -> 70000 ]

\* u16::MAX, the largest client id
u16_MAX == 65535

\* str::parse::<u16>: Ok for a numeral within range
parse_u16(s) == s \in DOMAIN Numerals /\ Numerals[s] <= u16_MAX

\* str::parse::<u32>: Ok for a numeral (each of Numerals fits a u32)
parse_u32(s) == s \in DOMAIN Numerals

\* Option<Decimal>: the empty field is None, a decimal literal is Some
DecimalLiterals == [ s \in {"1.0", "1.001"} |->
                       CASE s = "1.0" -> Dec(1, 0) [] s = "1.001" -> Dec(1, 100) ]

parse_amount(s) == s = "" \/ s \in DOMAIN DecimalLiterals

\* the record deserializes into a Transaction: four fields as in the
\* header, a known type, client a u16, tx a u32, amount empty or a decimal
record_ok(row) ==
    /\ Len(row) = 4
    /\ row[1] \in DOMAIN KindNames
    /\ parse_u16(row[2])
    /\ parse_u32(row[3])
    /\ parse_amount(row[4])

\* the Transaction of a record that deserializes
deserialized(row) ==
    Transaction(KindNames[row[1]], Numerals[row[2]], Numerals[row[3]],
                IF row[4] = "" THEN None ELSE Some(DecimalLiterals[row[4]]))

\* the data rows of test_read_txns (tx.rs 488-499), and a client id that
\* does not fit a u16
RawRows ==
    { <<"deposit", "1", "1", "1.001">>,
      <<"dispute", "2", "1", "">>,
      <<"bad line">>,
      <<"chargeback", "5", "5">>,
      <<"deposit", "1", "1", "1.0", "1.0">>,
      <<"deposit", "x", "1", "1.0">>,
      <<"deposit", "1", "x", "1.0">>,
      <<"deposit", "1", "1", "x">>,
      <<"deposit", "70000", "1", "1.0">> }

Files == UNION { [1..n -> RawRows] : n \in 0..MaxRows }

\* accounts_from_path is called with a path that opens or not
ReadInit ==
    /\ file_opens \in BOOLEAN
    /\ file_rows \in (IF file_opens THEN Files ELSE {<<>>})
    /\ read_pos = 0
    /\ all_txns = <<>>
    /\ main_pc  = "start"
    /\ accounts = <<>>
    /\ PoolIdle
    /\ MapIdle
    /\ CsvIdle

\* let pool = ThreadPool::new()?: tx.rs 118
ThreadPool_new ==
    /\ main_pc = "start"
    /\ \/ main_pc' = "open" /\ worker' = [w \in 1..NumWorkers |-> 0]
       \/ main_pc' = "failed" /\ worker' = worker
    /\ UNCHANGED <<all_txns, spawned, queue, chan, senders, ended, rx_account,
                   rx_handled, rx_got, panicked, mapVars, accounts, readVars>>

\* ReaderBuilder::from_path(path)?: tx.rs 189-193, and the ? of tx.rs 119-120
from_path ==
    /\ main_pc = "open"
    /\ main_pc' = IF file_opens THEN "read" ELSE "failed"
    /\ UNCHANGED <<all_txns, poolVars, mapVars, accounts, readVars>>

\* one record of rdr.deserialize().filter_map(|record| record.ok()): tx.rs 198-200
deserialize ==
    /\ main_pc = "read"
    /\ read_pos < Len(file_rows)
    /\ LET row == file_rows[read_pos + 1]
       IN  all_txns' = IF record_ok(row) THEN Append(all_txns, deserialized(row))
                       ELSE all_txns
    /\ read_pos' = read_pos + 1
    /\ UNCHANGED <<main_pc, poolVars, mapVars, accounts, file_opens, file_rows>>

\* read_txns returns Ok(all_txns) and accounts_from_path writes its first
\* progress line: writeln!(io::stdout(), ..)? (tx.rs 203, 121)
read_txns_done ==
    /\ main_pc = "read"
    /\ read_pos = Len(file_rows)
    /\ main_pc' \in {"streams", "failed"}
    /\ UNCHANGED <<all_txns, poolVars, mapVars, accounts, readVars>>

\* the fold of txns_to_streams (tx.rs 227-242)
txns_to_streams ==
    /\ main_pc = "streams"
    /\ LET clients == { all_txns[i].client_id : i \in 1..Len(all_txns) }
       IN  /\ chan'       = [c \in clients |-> <<>>]
           /\ senders'    = [c \in clients |-> 1 + Len(ClientIdx(all_txns, c))]
           /\ ended'      = [c \in clients |-> FALSE]
           /\ rx_account' = [c \in clients |-> Account_new(c)]
           /\ rx_handled' = [c \in clients |-> <<>>]
           /\ rx_got'     = [c \in clients |-> <<>>]
    /\ main_pc' = "spawn"
    /\ UNCHANGED <<all_txns, spawned, queue, worker, panicked, mapVars,
                   accounts, readVars>>

\* the second progress line fails: writeln!(io::stdout(), ..)? (tx.rs 124)
\* returns the error and drops the map with every receiver
writeln_fails ==
    /\ main_pc = "spawn"
    /\ spawned = Len(all_txns)
    /\ main_pc' = "failed"
    /\ ended' = [c \in DOMAIN ended |-> TRUE]
    /\ UNCHANGED <<all_txns, spawned, queue, worker, chan, senders, rx_account,
                   rx_handled, rx_got, panicked, mapVars, accounts, readVars>>

\* the last progress line and Ok(accounts): tx.rs 128-130
return_accounts ==
    /\ main_pc = "done"
    /\ \/ main_pc' = "returned" /\ accounts' = accounts
       \/ main_pc' = "failed" /\ accounts' = <<>>
    /\ UNCHANGED <<all_txns, poolVars, mapVars, readVars>>

ReadNext ==
    \/ ThreadPool_new /\ UNCHANGED <<ledgerVars, csvVars>>
    \/ from_path /\ UNCHANGED <<ledgerVars, csvVars>>
    \/ deserialize /\ UNCHANGED <<ledgerVars, csvVars>>
    \/ read_txns_done /\ UNCHANGED <<ledgerVars, csvVars>>
    \/ txns_to_streams /\ UNCHANGED <<ledgerVars, csvVars>>
    \/ writeln_fails /\ UNCHANGED <<ledgerVars, csvVars>>
    \/ return_accounts /\ UNCHANGED <<ledgerVars, csvVars>>

InitRead == LedgerInit /\ ReadInit

PathNext == ReadNext \/ StreamNext

SpecRead == InitRead /\ [][PathNext]_vars

----------------------------------------------------------------------------
(* csv.rs: the Ledger variant (csv.rs 122-263) and parse_file's pipeline   *)
(* (csv.rs 54-120): read_txns numbers the records and deserializes them in *)
(* parallel, txns_to_map groups them, txns_map_to_accounts sorts every     *)
(* client's Vec by the record number and folds it.                         *)

\* is_under_dispute of csv.rs 255-259
csv_is_under_dispute(txns) ==
    LET n_dispute == Count(txns, "Dispute")
        n_resolve == Count(txns, "Resolve")
    IN  n_dispute > n_resolve

\* initial_txn of csv.rs 261-263
csv_initial_txn(txns) ==
    LET f == SelectSeq(txns, LAMBDA t : t.kind = "Withdrawal" \/ t.kind = "Deposit")
    IN  IF f = <<>> THEN NoTxn ELSE Head(f)

\* handle_txn of csv.rs 122-253: no rounding, no test of the amount's sign
csv_handle_txn(acc, log, t) ==
    LET known   == t.tx_id \in DOMAIN log
        txns    == log[t.tx_id]
        dispute == csv_is_under_dispute(txns)
        initial == csv_initial_txn(txns)
        amount  == initial.amount.val
        deposit == initial.kind = "Deposit" /\ initial.amount.some
        withdrawal == initial.kind = "Withdrawal" /\ initial.amount.some
    IN  CASE t.kind = "Deposit" /\ t.amount.some ->
               IF ~acc.locked
               THEN Ok([acc EXCEPT !.available = @ + t.amount.val,
                                   !.total     = @ + t.amount.val])
               ELSE Err(acc)
          [] t.kind = "Withdrawal" /\ t.amount.some ->
               IF ~acc.locked /\ acc.available >= t.amount.val
               THEN Ok([acc EXCEPT !.available = @ - t.amount.val,
                                   !.total     = @ - t.amount.val])
               ELSE Err(acc)
          [] t.kind = "Dispute" /\ known ->
               IF ~dispute /\ deposit
               THEN Ok([acc EXCEPT !.available = @ - amount, !.held = @ + amount])
               ELSE IF ~dispute /\ withdrawal
               THEN Ok([acc EXCEPT !.held = @ + amount, !.total = @ + amount])
               ELSE Err(acc)
          [] t.kind = "Resolve" /\ known ->
               IF dispute /\ deposit
               THEN Ok([acc EXCEPT !.available = @ + amount, !.held = @ - amount])
               ELSE IF dispute /\ withdrawal
               THEN Ok([acc EXCEPT !.held = @ - amount, !.total = @ - amount])
               ELSE Err(acc)
          [] t.kind = "Chargeback" /\ known ->
               IF dispute /\ deposit
               THEN Ok([acc EXCEPT !.held = @ - amount, !.total = @ - amount,
                                   !.locked = TRUE])
               ELSE IF dispute /\ withdrawal
               THEN Ok([acc EXCEPT !.available = @ + amount, !.held = @ - amount,
                                   !.locked = TRUE])
               ELSE Err(acc)
          [] OTHER -> Err(acc)

\* the fold closure of to_account (csv.rs 109-118), applied to one event
csv_fold_step(t) ==
    LET r == csv_handle_txn(account, handled, t)
    IN  /\ account' = r.account
        /\ handled' = IF r.ok THEN log_push(handled, t) ELSE handled
        /\ txn'     = t
        /\ res'     = IF r.ok THEN "Ok" ELSE "Err"
        /\ before'  = account

\* to_account of csv.rs folds the next event of one client
ApplyCsv(t) ==
    /\ csv_handle_txn(account, handled, t).ok => LogSize(handled) < MaxLockedLog
    /\ csv_fold_step(t)
    /\ UNCHANGED <<trace, pipelineVars>>

CsvLedgerNext == \E t \in LockedEvents : ApplyCsv(t)

SpecCsvLedger == Init /\ [][CsvLedgerNext]_vars

\* client_txns left in the order the parallel deserialization delivered it
par_sort_by_key_skipped(s) == s

\* client_txns.par_sort_by_key(|(i, _)| *i): a stable sort by record
\* number; the element at k goes to the place after all that precede it
par_sort_by_key(s) ==
    LET place(k) == 1 + Cardinality({ j \in 1..Len(s) :
                           s[j].i < s[k].i \/ (s[j].i = s[k].i /\ j < k) })
    IN  [p \in 1..Len(s) |-> s[CHOOSE k \in 1..Len(s) : place(k) = p]]

\* acc.entry(txn.client_id).or_insert(vec![]).push((i, txn)): csv.rs 89-91
csv_map_push(map, p) ==
    [k \in DOMAIN map \cup {p.txn.client_id} |->
        IF k = p.txn.client_id
        THEN Append(IF k \in DOMAIN map THEN map[k] ELSE <<>>, p)
        ELSE map[k]]

\* parse_file has opened the file: all_txns are its records that
\* deserialize, in file order
CsvInit ==
    /\ all_txns \in Inputs
    /\ main_pc  = "csv"
    /\ csv_txns = <<>>
    /\ accounts = <<>>
    /\ PoolIdle
    /\ MapIdle
    /\ ReadIdle

\* read_txns (csv.rs 62-81): par_bridge hands the numbered records to
\* rayon's threads, collect gathers them in the order they finish
csv_read_txns ==
    /\ main_pc = "csv"
    /\ \E n \in 1..Len(all_txns) :
          /\ \A k \in 1..Len(csv_txns) : csv_txns[k].i # n - 1
          /\ csv_txns' = Append(csv_txns, [i |-> n - 1, txn |-> all_txns[n]])
    /\ UNCHANGED <<all_txns, main_pc, poolVars, mapVars, accounts, readVars>>

\* one iteration of the fold of txns_to_map (csv.rs 83-94)
csv_txns_to_map ==
    /\ main_pc = "csv"
    /\ Len(csv_txns) = Len(all_txns)
    /\ map_pos < Len(csv_txns)
    /\ txns_map' = csv_map_push(txns_map, csv_txns[map_pos + 1])
    /\ map_pos' = map_pos + 1
    /\ UNCHANGED <<all_txns, main_pc, poolVars, map_account, map_handled,
                   map_folded, accounts, readVars, csvVars>>

\* txns_map_to_accounts (csv.rs 96-104): every client's Vec is sorted by
\* record number, then folded by to_account
csv_txns_map_to_accounts ==
    /\ main_pc = "csv"
    /\ Len(csv_txns) = Len(all_txns)
    /\ map_pos = Len(csv_txns)
    /\ main_pc' = "csv_fold"
    /\ txns_map' = [c \in DOMAIN txns_map |-> par_sort_by_key(txns_map[c])]
    /\ map_account' = [c \in DOMAIN txns_map |-> Account_new(c)]
    /\ map_handled' = [c \in DOMAIN txns_map |-> <<>>]
    /\ map_folded'  = [c \in DOMAIN txns_map |-> 0]
    /\ UNCHANGED <<all_txns, poolVars, map_pos, accounts, readVars, csvVars>>

\* one iteration of the fold of to_account for client c (csv.rs 106-120)
csv_to_account(c) ==
    /\ main_pc = "csv_fold"
    /\ map_folded[c] < Len(txns_map[c])
    /\ LET t == txns_map[c][map_folded[c] + 1].txn
           r == csv_handle_txn(map_account[c], map_handled[c], t)
       IN  /\ map_account' = [map_account EXCEPT ![c] = r.account]
           /\ map_handled' = [map_handled EXCEPT ![c] =
                                 IF r.ok THEN log_push(@, t) ELSE @]
    /\ map_folded' = [map_folded EXCEPT ![c] = @ + 1]
    /\ UNCHANGED <<all_txns, main_pc, poolVars, map_pos, txns_map, accounts,
                   readVars, csvVars>>

\* .collect() of txns_map_to_accounts (csv.rs 103)
csv_collect ==
    /\ main_pc = "csv_fold"
    /\ \A c \in DOMAIN txns_map : map_folded[c] = Len(txns_map[c])
    /\ main_pc' = "done"
    /\ accounts' \in { [i \in DOMAIN o |-> map_account[o[i]]] : o \in Orders(DOMAIN txns_map) }
    /\ UNCHANGED <<all_txns, poolVars, mapVars, readVars, csvVars>>

CsvNext ==
    \/ csv_read_txns /\ UNCHANGED ledgerVars
    \/ csv_txns_to_map /\ UNCHANGED ledgerVars
    \/ csv_txns_map_to_accounts /\ UNCHANGED ledgerVars
    \/ \E c \in DOMAIN map_folded : csv_to_account(c) /\ UNCHANGED ledgerVars
    \/ csv_collect /\ UNCHANGED ledgerVars

InitCsv == LedgerInit /\ CsvInit

SpecCsv == InitCsv /\ [][CsvNext]_vars

----------------------------------------------------------------------------
(* Properties of the Ledger                                                *)

\* the event of this step was rejected without any effect
Rejected == res' = "Err" /\ account' = account /\ handled' = handled

HasChargeback(txns) == \E i \in 1..Len(txns) : txns[i].kind = "Chargeback"

Balances(a, h, t, l) ==
    /\ account.available = a
    /\ account.held = h
    /\ account.total = t
    /\ account.locked = l

\* C1: total == available + held after every event application, accepted
\* or rejected, from the empty account on.
C1_TotalIsAvailablePlusHeld ==
    account.total = account.available + account.held

C1_Witness ==
    /\ txn.kind = "Chargeback" /\ res = "Ok"
    /\ initial_txn(handled[txn.tx_id]).kind = "Withdrawal"
    /\ account.available > 0

\* C2: once a Chargeback has been accepted for a tx_id, every later Dispute
\* naming that tx_id is rejected and changes neither the account nor the log.
C2_NoDisputeAfterChargeback ==
    [][ ( /\ txn'.kind = "Dispute"
          /\ txn'.tx_id \in DOMAIN handled
          /\ HasChargeback(handled[txn'.tx_id]) ) => Rejected ]_vars

ScenarioA ==
    << Deposit(1, Dec(100, 0)), Withdrawal(2, Dec(50, 0)), Dispute(2), Resolve(2) >>

\* C3 as stated: Scenario A (deposit 100, withdrawal 50, dispute of the
\* withdrawal, resolve) ends with available=100, held=0, total=100, unlocked.
C3_ScenarioA_Original ==
    trace = ScenarioA => Balances(Dec(100, 0), 0, Dec(100, 0), FALSE)

\* C3 amended: Scenario A ends with available=50, held=0, total=50,
\* locked=false, and holds 50 with total=100 while the withdrawal is disputed.
C3_ScenarioA ==
    /\ trace = ScenarioA => Balances(Dec(50, 0), 0, Dec(50, 0), FALSE)
    /\ trace = SubSeq(ScenarioA, 1, 3) =>
           Balances(Dec(50, 0), Dec(50, 0), Dec(100, 0), FALSE)

C3_Witness == trace = ScenarioA /\ res = "Ok"

\* C4: for every scheduling of the send tasks, each client's Ledger receives
\* that client's events from its channel in exactly their input order.
C4_ReceivedInInputOrder ==
    \A c \in DOMAIN rx_got :
        LET idx == ClientIdx(all_txns, c)
        IN  /\ Len(rx_got[c]) <= Len(idx)
            /\ rx_got[c] = SubSeq(idx, 1, Len(rx_got[c]))

\* the step resolves the tx_id whose Dispute was accepted by the step before
ResolveRightAfterDispute ==
    /\ txn.kind = "Dispute" /\ res = "Ok"
    /\ txn'.kind = "Resolve" /\ txn'.tx_id = txn.tx_id

CurrentlyDisputed(txns) ==
    /\ Count(txns, "Dispute") > Count(txns, "Resolve")
    /\ ~HasChargeback(txns)

\* C6: a Dispute for a tx_id that is currently under dispute is rejected and
\* leaves the account and the log as they were, however often it is repeated.
C6_DuplicateDisputeRejected ==
    [][ ( /\ txn'.kind = "Dispute"
          /\ txn'.tx_id \in DOMAIN handled
          /\ CurrentlyDisputed(handled[txn'.tx_id]) ) => Rejected ]_vars

C6_Witness ==
    /\ txn.kind = "Dispute" /\ res = "Err"
    /\ txn.tx_id \in DOMAIN handled
    /\ CurrentlyDisputed(handled[txn.tx_id])
    /\ account.held > 0

\* C7: locked is monotonic: once true it stays true after every later event.
C7_LockedMonotonic == [][ account.locked => account'.locked ]_vars

C7_Witness ==
    /\ before.locked /\ account.locked
    /\ txn.kind = "Dispute" /\ res = "Ok"

ScenarioB ==
    << Deposit(1, Dec(100, 0)), Dispute(1), Chargeback(1), Deposit(2, Dec(50, 0)) >>

\* C8: once locked is true every Deposit or Withdrawal is rejected, leaves
\* available, held and total unchanged and is not recorded in the log, so a
\* later Dispute of it is rejected; deposit 100, dispute, chargeback,
\* deposit 50 ends with available=0, held=0, total=0, locked=true.
C8_LockedRejectsDepositWithdrawal ==
    /\ [][ (account.locked /\ txn'.kind \in {"Deposit", "Withdrawal"})
             => Rejected ]_vars
    /\ [](trace = ScenarioB => Balances(0, 0, 0, TRUE) /\ 2 \notin DOMAIN handled)
    /\ [](trace = Append(ScenarioB, Dispute(2)) =>
             res = "Err" /\ Balances(0, 0, 0, TRUE))

C8_Witness == trace = ScenarioB /\ res = "Err" /\ before.locked

\* C9: a Deposit or Withdrawal whose amount is zero or negative is rejected:
\* the account is unchanged and the event is not recorded in the log.
C9_NonPositiveAmountRejected ==
    [][ ( /\ txn'.kind \in {"Deposit", "Withdrawal"}
          /\ txn'.amount.some
          /\ txn'.amount.val <= 0 ) => Rejected ]_vars

ScenarioD == << Deposit(1, Dec(50, 0)), Withdrawal(2, Dec(200, 0)) >>

\* C10: a Withdrawal is rejected, account and log unchanged, whenever
\* available < amount, held funds not counting; available >= 0 right after
\* every accepted Withdrawal; deposit 50 then withdrawal 200 ends with
\* available=50, held=0, total=50, locked=false.
C10_WithdrawalNeedsAvailable ==
    /\ [][ ( /\ txn'.kind = "Withdrawal" /\ txn'.amount.some
             /\ account.available < txn'.amount.val ) => Rejected ]_vars
    /\ [](txn.kind = "Withdrawal" /\ res = "Ok" => account.available >= 0)
    /\ [](trace = ScenarioD => res = "Err" /\ Balances(Dec(50, 0), 0, Dec(50, 0), FALSE))

C10_Witness ==
    /\ txn.kind = "Withdrawal" /\ res = "Err"
    /\ ~account.locked
    /\ txn.amount.val > 0
    /\ account.available < txn.amount.val
    /\ account.total >= txn.amount.val

\* no log entry holds a Deposit or Withdrawal carrying this tx_id
NoAcceptedFor(id) ==
    \A k \in DOMAIN handled : \A i \in 1..Len(handled[k]) :
        ~(handled[k][i].tx_id = id /\ handled[k][i].kind \in {"Deposit", "Withdrawal"})

ScenarioC == << Deposit(1, Dec(100, 0)), Dispute(99) >>

\* C11: a Dispute, Resolve or Chargeback naming a tx_id with no accepted
\* Deposit/Withdrawal in the log (never seen, or seen only as a rejected
\* Withdrawal) is rejected and leaves account and log unchanged; deposit 100
\* then dispute of tx99 ends with available=100, held=0, total=100, unlocked.
C11_UnknownReferenceRejected ==
    /\ [][ ( /\ txn'.kind \in {"Dispute", "Resolve", "Chargeback"}
             /\ NoAcceptedFor(txn'.tx_id) ) => Rejected ]_vars
    /\ [](trace = ScenarioC =>
             res = "Err" /\ Balances(Dec(100, 0), 0, Dec(100, 0), FALSE))
    /\ [](trace = << Withdrawal(2, Dec(200, 0)), Dispute(2) >> =>
             res = "Err" /\ Balances(0, 0, 0, FALSE) /\ handled = <<>>)

C11_Witness == trace = ScenarioC /\ res = "Err" /\ 99 \notin DOMAIN handled

\* C12: a Deposit or Withdrawal whose tx_id is already in the client's log is
\* rejected, so every log entry holds at most one Deposit/Withdrawal.
C12_DuplicateTxIdRejected ==
    /\ [][ ( /\ txn'.kind \in {"Deposit", "Withdrawal"}
             /\ txn'.tx_id \in DOMAIN handled ) => Rejected ]_vars
    /\ [](\A id \in DOMAIN handled :
             Count(handled[id], "Deposit") + Count(handled[id], "Withdrawal") <= 1)

\* the step applies a Chargeback to a logged tx_id that is under dispute and
\* whose initial transaction has this kind
ChargebackOfDisputed(kind) ==
    /\ txn'.kind = "Chargeback"
    /\ txn'.tx_id \in DOMAIN handled
    /\ CurrentlyDisputed(handled[txn'.tx_id])
    /\ initial_txn(handled[txn'.tx_id]).kind = kind

\* C13: a Chargeback on a disputed Deposit of (rounded) amount a is accepted
\* and sets held := held - a, total := total - a, locked := true, leaving
\* available unchanged; a Chargeback on a tx_id that is not under dispute
\* does not set locked.
C13_ChargebackOfDeposit ==
    /\ [][ ChargebackOfDisputed("Deposit") =>
             LET a == round_dp(initial_txn(handled[txn'.tx_id]).amount.val)
             IN  /\ res' = "Ok"
                 /\ handled' = log_push(handled, txn')
                 /\ account'.held = account.held - a
                 /\ account'.total = account.total - a
                 /\ account'.available = account.available
                 /\ account'.locked ]_vars
    /\ [][ ( /\ txn'.kind = "Chargeback"
             /\ ~( /\ txn'.tx_id \in DOMAIN handled
                   /\ CurrentlyDisputed(handled[txn'.tx_id]) ) )
             => (account'.locked = account.locked /\ res' = "Err") ]_vars

C13_Witness ==
    /\ txn.kind = "Chargeback" /\ res = "Ok"
    /\ initial_txn(handled[txn.tx_id]).kind = "Deposit"
    /\ before.held > 0 /\ ~before.locked
    /\ account.locked /\ account.held = 0

\* C14: a Chargeback on a disputed Withdrawal of (rounded) amount a sets
\* available := available + a, held := held - a, locked := true and leaves
\* total; Deposit d, Withdrawal w (w <= d), Dispute(w), Chargeback(w) from
\* the empty account ends with available=d, held=0, total=d, locked=true.
C14_ChargebackOfWithdrawal ==
    /\ [][ ChargebackOfDisputed("Withdrawal") =>
             LET a == round_dp(initial_txn(handled[txn'.tx_id]).amount.val)
             IN  /\ res' = "Ok"
                 /\ account'.available = account.available + a
                 /\ account'.held = account.held - a
                 /\ account'.total = account.total
                 /\ account'.locked ]_vars
    /\ [](\A d \in {Dec(100, 0), Dec(50, 0)} :
          \A w \in {Dec(50, 0), Dec(49, 99995)} :
             trace = << Deposit(1, d), Withdrawal(2, w), Dispute(2), Chargeback(2) >>
                => Balances(d, 0, d, TRUE))

C14_Witness ==
    /\ trace = << Deposit(1, Dec(100, 0)), Withdrawal(2, Dec(50, 0)),
                  Dispute(2), Chargeback(2) >>
    /\ res = "Ok" /\ before.held = Dec(50, 0)

\* C15: a Resolve or Chargeback naming a logged tx_id that is not under
\* dispute (never disputed, resolved as often as disputed, or already
\* charged back) is rejected and leaves account and log unchanged.
C15_NotDisputedRejected ==
    [][ ( /\ txn'.kind \in {"Resolve", "Chargeback"}
          /\ txn'.tx_id \in DOMAIN handled
          /\ ~CurrentlyDisputed(handled[txn'.tx_id]) ) => Rejected ]_vars

C15_Witness ==
    /\ txn.kind = "Resolve" /\ res = "Err"
    /\ txn.tx_id \in DOMAIN handled
    /\ HasChargeback(handled[txn.tx_id])
    /\ account.locked

\* C16: an event for which handle_txn returns an error leaves the four
\* account fields and the log as they were, and the fold goes on: the events
\* after a rejected one are still applied.
C16_RejectionHasNoEffect ==
    /\ [][ res' = "Err" => (account' = account /\ handled' = handled) ]_vars
    /\ [](res = "Err" /\ Len(trace) < MaxTxns => ENABLED ToAccountNext)
    /\ [](trace = << Withdrawal(2, Dec(200, 0)), Deposit(1, Dec(100, 0)) >> =>
             res = "Ok" /\ Balances(Dec(100, 0), 0, Dec(100, 0), FALSE))

C16_Witness ==
    /\ trace = << Withdrawal(2, Dec(200, 0)), Deposit(1, Dec(100, 0)) >>
    /\ res = "Ok"

----------------------------------------------------------------------------
(* Properties of the two pipelines                                         *)

\* the client ids of a sequence of transactions
ClientsOf(txns) == { txns[i].client_id : i \in 1..Len(txns) }

\* the transactions of client c, in the order of the sequence
SubseqOf(txns, c) == SelectSeq(txns, LAMBDA t : t.client_id = c)

RECURSIVE FoldFrom(_, _, _)
\* the Account a sequential fold of handle_txn over txns ends with
FoldFrom(acc, log, txns) ==
    IF txns = <<>> THEN acc
    ELSE LET r == handle_txn(acc, log, Head(txns))
         IN  FoldFrom(r.account,
                      IF r.ok THEN log_push(log, Head(txns)) ELSE log,
                      Tail(txns))

\* the Account of client c when its transactions are folded alone, in input order
FoldAlone(txns, c) == FoldFrom(Account_new(c), <<>>, SubseqOf(txns, c))

\* the accounts returned, as a set
AccountSet == { accounts[i] : i \in 1..Len(accounts) }

CrossClientDispute ==
    << Transaction("Deposit", 1, 1, Some(Dec(100, 0))),
       Transaction("Dispute", 2, 1, None) >>

\* C17: in the map-based pipeline every client's final Account equals the
\* fold of that client's subsequence alone, whatever the interleaving of
\* the clients in the input; a Dispute of client 2 naming a tx_id accepted
\* for client 1 changes neither account.
C17_PerClientIsolation ==
    /\ main_pc = "done" =>
          \A c \in ClientsOf(all_txns) : FoldAlone(all_txns, c) \in AccountSet
    /\ (main_pc = "done" /\ all_txns = CrossClientDispute) =>
          AccountSet = { [Account_new(1) EXCEPT !.available = Dec(100, 0),
                                                !.total = Dec(100, 0)],
                         Account_new(2) }

C17_Witness ==
    /\ main_pc = "done"
    /\ all_txns = CrossClientDispute
    /\ Len(accounts) = 2

\* C18: txns_to_map is a pure regrouping: after any number of fold steps the
\* value under each client id is the subsequence of the consumed input with
\* that client id, in input order, duplicate tx_ids included, and a client
\* id with no event has no key.
C18_MapIsRegrouping ==
    LET consumed == SubSeq(all_txns, 1, map_pos)
    IN  /\ DOMAIN txns_map = ClientsOf(consumed)
        /\ \A c \in DOMAIN txns_map : txns_map[c] = SubseqOf(consumed, c)

C18_Witness ==
    /\ map_pos = 3 /\ map_pos = Len(all_txns)
    /\ DOMAIN txns_map = {1, 2}
    /\ Len(txns_map[1]) = 2
    /\ txns_map[1][1] = txns_map[1][2]
    /\ all_txns[2].client_id = 2

\* C19: both aggregators return exactly one Account per distinct client id
\* of the input and none for any other id; a client all of whose events are
\* rejected still gets the Account 0/0/0/unlocked.
C19_OneAccountPerClient ==
    main_pc = "done" =>
        /\ Len(accounts) = Cardinality(ClientsOf(all_txns))
        /\ { accounts[i].client_id : i \in 1..Len(accounts) } = ClientsOf(all_txns)
        /\ \A c \in ClientsOf(all_txns) :
              (\A i \in 1..Len(all_txns) :
                  all_txns[i].client_id = c => all_txns[i].kind = "Dispute")
              => Account_new(c) \in AccountSet

C19_Witness ==
    /\ main_pc = "done"
    /\ Len(accounts) = 2
    /\ Account_new(2) \in AccountSet
    /\ panicked = FALSE
    /\ \E i \in 1..Len(accounts) : accounts[i].total = Dec(100, 0)

\* C20: for every input and every scheduling the stream pipeline returns
\* the same set of Accounts as txns_to_map followed by the sequential fold
\* of every client's transactions.
C20_StreamEqualsMap ==
    main_pc = "done" =>
        AccountSet = { FoldAlone(all_txns, c) : c \in ClientsOf(all_txns) }

\* accounts_from_path has returned: every send task has run, every channel
\* is closed and every stream_to_account has returned its Account
StreamReturned ==
    /\ main_pc = "done"
    /\ spawned = Len(all_txns)
    /\ queue = <<>>
    /\ \A w \in DOMAIN worker : worker[w] = 0
    /\ \A c \in DOMAIN senders : senders[c] = 0 /\ ended[c] /\ chan[c] = <<>>
    /\ Len(accounts) = Cardinality(DOMAIN ended)

C22_EveryEventDeliveredOnce ==
    \A c \in DOMAIN ended :
        /\ \A k \in 1..Len(rx_got[c]) : all_txns[rx_got[c][k]].client_id = c
        /\ \A j, k \in 1..Len(rx_got[c]) : rx_got[c][j] = rx_got[c][k] => j = k
        /\ ended[c] =>
              { rx_got[c][k] : k \in 1..Len(rx_got[c]) }
                 = { i \in 1..Len(all_txns) : all_txns[i].client_id = c }

C22_Witness ==
    /\ \E c \in DOMAIN ended : ended[c] /\ Len(rx_got[c]) = 2 /\ rx_got[c][1] > rx_got[c][2]
    /\ ~panicked

\* a multiple of 0.0001
IsRounded(x) == x % 10 = 0

\* C24: every amount is rounded to 4 fractional digits where it is applied,
\* so available, held and total are multiples of 0.0001 in every reachable
\* state, whatever the fractional digits of the input amounts; an accepted
\* deposit of 2.00002 adds exactly 2.0000.
C24_BalancesRoundedTo4dp ==
    /\ [](IsRounded(account.available) /\ IsRounded(account.held)
            /\ IsRounded(account.total))
    /\ [][ ( /\ txn'.kind = "Deposit" /\ res' = "Ok"
             /\ txn'.amount.val = Dec(2, 2) )
           => ( /\ account'.available = account.available + Dec(2, 0)
                /\ account'.total = account.total + Dec(2, 0) ) ]_vars

C24_Witness ==
    /\ txn.kind = "Deposit" /\ res = "Ok"
    /\ txn.amount.val = Dec(2, 2)
    /\ account.available = Dec(2, 0) + 2 * 20
    /\ account.held = 0

\* the step applies an event of this kind to a logged tx_id whose initial
\* transaction is a Deposit
OnLoggedDeposit(kind) ==
    /\ txn'.kind = kind
    /\ txn'.tx_id \in DOMAIN handled
    /\ initial_txn(handled[txn'.tx_id]).kind = "Deposit"

\* C25: a Dispute of a Deposit of (rounded) amount a that is not under
\* dispute is accepted whatever the available balance: available :=
\* available - a, held := held + a, total unchanged; after deposit 100 and
\* withdrawal 50 the dispute of the deposit leaves available = -50.
C25_DisputeHasNoFundsCheck ==
    /\ [][ ( /\ OnLoggedDeposit("Dispute")
             /\ ~CurrentlyDisputed(handled[txn'.tx_id]) ) =>
             LET a == round_dp(initial_txn(handled[txn'.tx_id]).amount.val)
             IN  /\ res' = "Ok"
                 /\ account'.available = account.available - a
                 /\ account'.held = account.held + a
                 /\ account'.total = account.total ]_vars
    /\ [](trace = << Deposit(1, Dec(100, 0)), Withdrawal(2, Dec(50, 0)), Dispute(1) >>
            => res = "Ok" /\ Balances(0 - Dec(50, 0), Dec(100, 0), Dec(50, 0), FALSE))

C25_Witness ==
    /\ trace = << Deposit(1, Dec(100, 0)), Withdrawal(2, Dec(50, 0)), Dispute(1) >>
    /\ account.available < 0

\* C26: acceptance and effect of Dispute, Resolve and Chargeback do not
\* depend on locked: on a locked account a Dispute of an accepted deposit
\* that is not under dispute is applied, and a Resolve or Chargeback of a
\* deposit under dispute is applied.
C26_DisputesIgnoreLocked ==
    /\ [][ ( /\ account.locked
             /\ OnLoggedDeposit("Dispute")
             /\ ~CurrentlyDisputed(handled[txn'.tx_id]) ) =>
             ( /\ res' = "Ok"
               /\ account'.held = account.held
                    + round_dp(initial_txn(handled[txn'.tx_id]).amount.val) ) ]_vars
    /\ [][ ( /\ account.locked
             /\ (OnLoggedDeposit("Resolve") \/ OnLoggedDeposit("Chargeback"))
             /\ CurrentlyDisputed(handled[txn'.tx_id]) ) =>
             ( /\ res' = "Ok"
               /\ account'.held = account.held
                    - round_dp(initial_txn(handled[txn'.tx_id]).amount.val) ) ]_vars
    /\ [][ txn'.kind \in {"Dispute", "Resolve", "Chargeback"} =>
             LET r == handle_txn([account EXCEPT !.locked = ~account.locked],
                                 handled, txn')
             IN  /\ (res' = "Ok") = r.ok
                 /\ r.account.available = account'.available
                 /\ r.account.held = account'.held
                 /\ r.account.total = account'.total ]_vars

C26_Witness ==
    /\ before.locked
    /\ txn.kind = "Resolve" /\ res = "Ok"
    /\ account.held < before.held

\* C27: held >= 0 in every reachable state, whatever the event sequence
\* (duplicate tx_ids, repeated resolves and repeated chargebacks included).
C27_HeldNonNegative == account.held >= 0

C27_Witness ==
    /\ txn.kind = "Resolve" /\ res = "Err"
    /\ txn.tx_id \in DOMAIN handled
    /\ Count(handled[txn.tx_id], "Resolve") >= 1
    /\ Count(handled[txn.tx_id], "Deposit") + Count(handled[txn.tx_id], "Withdrawal") >= 2
    /\ account.held = 0

RECURSIVE HeldFor(_, _)
\* the rounded initial amounts of the tx_ids of ids that are under dispute
HeldFor(log, ids) ==
    IF ids = {} THEN 0
    ELSE LET id == CHOOSE x \in ids : TRUE
         IN  (IF is_under_dispute(log[id])
              THEN round_dp(initial_txn(log[id]).amount.val) ELSE 0)
             + HeldFor(log, ids \ {id})

\* C28: held equals the sum, over the tx_ids currently under dispute, of the
\* rounded amount of the tx_id's initial Deposit/Withdrawal.
C28_HeldIsSumOfDisputed == account.held = HeldFor(handled, DOMAIN handled)

\* C29: at most one Chargeback is accepted per tx_id: after an accepted
\* Chargeback every further Chargeback or Resolve for that tx_id is rejected
\* and leaves the account unchanged.
C29_OneChargebackPerTx ==
    /\ [](\A id \in DOMAIN handled : Count(handled[id], "Chargeback") <= 1)
    /\ [][ ( /\ txn'.kind \in {"Chargeback", "Resolve"}
             /\ txn'.tx_id \in DOMAIN handled
             /\ HasChargeback(handled[txn'.tx_id]) ) => Rejected ]_vars

C29_Witness ==
    /\ txn.kind = "Chargeback" /\ res = "Err"
    /\ txn.tx_id \in DOMAIN handled
    /\ HasChargeback(handled[txn.tx_id])
    /\ Count(handled[txn.tx_id], "Dispute") = 2

\* C30: locked is true exactly when the log holds an accepted Chargeback; no
\* Deposit, Withdrawal, Dispute or Resolve changes locked.
C30_LockedIffChargeback ==
    /\ [](account.locked <=> \E id \in DOMAIN handled : HasChargeback(handled[id]))
    /\ [][ txn'.kind # "Chargeback" => account'.locked = account.locked ]_vars

C30_Witness ==
    /\ account.locked /\ ~before.locked
    /\ txn.kind = "Chargeback" /\ res = "Ok"
    /\ initial_txn(handled[txn.tx_id]).kind = "Withdrawal"

\* the Transactions of the rows that deserialize, in the order of the rows
ValidRows(rows) ==
    LET ok == SelectSeq(rows, record_ok)
    IN  [i \in 1..Len(ok) |-> deserialized(ok[i])]

\* C23: read_txns drops every row that fails to parse and returns the valid
\* rows in their original order without an error; only a failure to open
\* the input makes accounts_from_path return an error, and then no Account
\* is produced.
C23_OnlyOpenFailureIsError ==
    /\ main_pc \in {"read", "streams", "spawn", "join", "done", "returned"}
          => all_txns = ValidRows(SubSeq(file_rows, 1, read_pos))
    /\ main_pc = "failed" => ~file_opens /\ accounts = <<>>
    /\ (~file_opens /\ main_pc \notin {"start", "open"}) => main_pc = "failed"

\* C31: every log entry is non-empty, holds only events carrying the entry's
\* tx_id and starts with a Deposit or Withdrawal, so initial_txn finds a
\* transaction for every tx_id of the log.
C31_LogEntriesWellFormed ==
    \A id \in DOMAIN handled :
        /\ handled[id] # <<>>
        /\ \A i \in 1..Len(handled[id]) : handled[id][i].tx_id = id
        /\ handled[id][1].kind \in {"Deposit", "Withdrawal"}
        /\ handled[id][1].amount.some
        /\ initial_txn(handled[id]) # NoTxn

C31_Witness ==
    /\ DOMAIN handled = {1, 2}
    /\ Len(handled[1]) = 2 /\ handled[1][2].kind = "Dispute"
    /\ Len(handled[2]) = 2 /\ handled[2][1].kind = "Withdrawal"

\* C32: for a tx_id with no accepted Chargeback the accepted Disputes minus
\* the accepted Resolves is 0 or 1 in every state, and a transaction that
\* was disputed and resolved is disputed again when the next Dispute comes.
C32_DisputeResolveAlternate ==
    /\ [](\A id \in DOMAIN handled :
            ~HasChargeback(handled[id]) =>
               Count(handled[id], "Dispute") - Count(handled[id], "Resolve") \in {0, 1})
    /\ [][ ( /\ txn'.kind = "Dispute"
             /\ txn'.tx_id \in DOMAIN handled
             /\ ~HasChargeback(handled[txn'.tx_id])
             /\ Count(handled[txn'.tx_id], "Dispute") >= 1
             /\ Count(handled[txn'.tx_id], "Dispute")
                  = Count(handled[txn'.tx_id], "Resolve") )
           => ( res' = "Ok" /\ handled' = log_push(handled, txn') ) ]_vars

C32_Witness ==
    /\ txn.kind = "Dispute" /\ res = "Ok"
    /\ Count(handled[txn.tx_id], "Dispute") = 3
    /\ Count(handled[txn.tx_id], "Resolve") = 2
    /\ ~HasChargeback(handled[txn.tx_id])

\* the first Deposit or Withdrawal of a log entry
FirstLogged(txns) ==
    txns[CHOOSE i \in 1..Len(txns) :
            /\ txns[i].kind \in {"Deposit", "Withdrawal"}
            /\ \A j \in 1..(i - 1) : txns[j].kind \notin {"Deposit", "Withdrawal"}]

\* C33: an accepted Dispute, Resolve or Chargeback on a tx_id moves the
\* rounded amount of the first accepted Deposit/Withdrawal logged under
\* that tx_id, also when later accepted Deposits/Withdrawals share it: the
\* Dispute adds it to held, the Resolve or Chargeback takes it off.
C33_AmountOfFirstLogged ==
    [][ ( /\ txn'.kind \in {"Dispute", "Resolve", "Chargeback"}
          /\ res' = "Ok" ) =>
          LET a == round_dp(FirstLogged(handled[txn'.tx_id]).amount.val)
          IN  IF txn'.kind = "Dispute"
              THEN account'.held = account.held + a
              ELSE account'.held = account.held - a ]_vars

C33_Witness ==
    /\ txn.kind = "Resolve" /\ res = "Ok"
    /\ handled[1][1].kind = "Deposit"
    /\ handled[1][1].amount.val = Dec(2, 2)
    /\ handled[1][2].kind = "Deposit"
    /\ handled[1][2].amount.val = Dec(0, 15)
    /\ before.held = Dec(2, 0) /\ account.held = 0

\* C34: no send task of accounts_from_path ever fails: whenever a send task
\* runs its client's receiver is alive, so expect("Failed to send") never
\* panics.
C34_SendNeverFails ==
    /\ ~panicked
    /\ \A w \in DOMAIN worker :
          worker[w] # 0 => ~ended[all_txns[worker[w]].client_id]

RECURSIVE CsvFoldFrom(_, _, _)
\* the Account a sequential fold of csv.rs's handle_txn over txns ends with
CsvFoldFrom(acc, log, txns) ==
    IF txns = <<>> THEN acc
    ELSE LET r == csv_handle_txn(acc, log, Head(txns))
         IN  CsvFoldFrom(r.account,
                         IF r.ok THEN log_push(log, Head(txns)) ELSE log,
                         Tail(txns))

\* C35: in csv.rs, whatever order the parallel deserialization delivers the
\* numbered records in, every client's events are folded in the order of
\* the input and the Accounts returned do not depend on the schedule.
C35_SortedBeforeFold ==
    /\ main_pc \in {"csv_fold", "done"} =>
          \A c \in DOMAIN txns_map :
             [k \in 1..Len(txns_map[c]) |-> txns_map[c][k].txn] = SubseqOf(all_txns, c)
    /\ main_pc = "done" =>
          AccountSet = { CsvFoldFrom(Account_new(c), <<>>, SubseqOf(all_txns, c)) :
                            c \in ClientsOf(all_txns) }

C35_Witness ==
    /\ main_pc = "done"
    /\ Len(csv_txns) = 3
    /\ csv_txns[1].i = 2 /\ csv_txns[2].i = 1 /\ csv_txns[3].i = 0
    /\ all_txns[1].kind = "Deposit" /\ all_txns[2].kind = "Dispute"
    /\ all_txns[1].client_id = all_txns[2].client_id
    /\ \E k \in 1..Len(accounts) : accounts[k].held = Dec(100, 0)

\* C36: in csv.rs, once a Chargeback is accepted for a tx_id every further
\* Chargeback or Resolve for it is rejected and leaves the account
\* unchanged, so held never becomes negative.
C36_CsvNoSecondChargeback ==
    /\ [][ ( /\ txn'.kind \in {"Chargeback", "Resolve"}
             /\ txn'.tx_id \in DOMAIN handled
             /\ HasChargeback(handled[txn'.tx_id]) ) => Rejected ]_vars
    /\ [](account.held >= 0)

====
